---- MODULE Spec2Model ----
(***************************************************************************)
(* fcos-ignition-coder: disassemble an Ignition document into a document  *)
(* with placeholders plus external content files, and assemble it back.    *)
(*                                                                         *)
(* Strings are TLA+ strings handled with Len, SubSeq and \o; bytes are     *)
(* sequences of integers 0..255; a JSON value is a record tagged by t.     *)
(* serde_json's Map is a BTreeMap unless the preserve_order feature is on, *)
(* so the members of an object are kept and visited in key order.          *)
(***************************************************************************)
EXTENDS Integers, Sequences, FiniteSets, TLC

(***************************************************************************)
(* String helpers (std::str)                                               *)
(***************************************************************************)

CharAt(s, i) == SubSeq(s, i, i)

\* str::starts_with
StartsWith(s, p) == Len(s) >= Len(p) /\ SubSeq(s, 1, Len(p)) = p

\* str::ends_with
EndsWith(s, p) == Len(s) >= Len(p) /\ SubSeq(s, Len(s) - Len(p) + 1, Len(s)) = p

\* str::find: the first position where p occurs in s, 0 when it does not
IndexOf(s, p) ==
    LET hits == {i \in 1..(Len(s) - Len(p) + 1) : SubSeq(s, i, i + Len(p) - 1) = p}
    IN  IF hits = {} THEN 0 ELSE CHOOSE i \in hits : \A j \in hits : i <= j

\* str::contains
Contains(s, p) == IndexOf(s, p) # 0

\* str::trim_start_matches: removes the prefix p as often as it occurs
RECURSIVE TrimStartMatches(_, _)
TrimStartMatches(s, p) ==
    IF Len(p) > 0 /\ StartsWith(s, p)
    THEN TrimStartMatches(SubSeq(s, Len(p) + 1, Len(s)), p)
    ELSE s

\* str::splitn(2, sep): one part when sep does not occur, else two
SplitN2(s, sep) ==
    LET i == IndexOf(s, sep)
    IN  IF i = 0 THEN <<s>>
        ELSE <<SubSeq(s, 1, i - 1), SubSeq(s, i + Len(sep), Len(s))>>

\* str::split on a one-character separator
RECURSIVE Split(_, _)
Split(s, c) ==
    LET i == IndexOf(s, c)
    IN  IF i = 0 THEN <<s>>
        ELSE <<SubSeq(s, 1, i - 1)>> \o Split(SubSeq(s, i + 1, Len(s)), c)

Digits == "0123456789"

\* usize::to_string and the {} formatting of a usize
RECURSIVE to_string(_)
to_string(n) ==
    IF n < 10 THEN CharAt(Digits, n + 1)
    ELSE to_string(n \div 10) \o CharAt(Digits, (n % 10) + 1)

\* the printable ASCII characters of codes 32..95 and 97..126
AsciiLow == " !\"#$%&'()*+,-./0123456789:;<=>?@ABCDEFGHIJKLMNOPQRSTUVWXYZ[\\]^_"

AsciiHigh == "abcdefghijklmnopqrstuvwxyz{|}~"

\* the byte of a character
Code(c) ==
    IF IndexOf(AsciiLow, c) # 0 THEN 31 + IndexOf(AsciiLow, c) ELSE 96 + IndexOf(AsciiHigh, c)

\* str::as_bytes
RECURSIVE Bytes(_)
Bytes(s) == IF Len(s) = 0 THEN <<>> ELSE <<Code(CharAt(s, 1))>> \o Bytes(SubSeq(s, 2, Len(s)))

(***************************************************************************)
(* base64 (crate base64, STANDARD engine) and the forgiving decoder of     *)
(* crate data_url                                                          *)
(***************************************************************************)

Base64Alphabet == "ABCDEFGHIJKLMNOPQRSTUVWXYZabcdefghijklmnopqrstuvwxyz0123456789+/"

Sym(v) == CharAt(Base64Alphabet, v + 1)

\* STANDARD.encode with the third symbol of a two-byte tail not shifted
RECURSIVE STANDARD_encode_TailNotShifted(_)
STANDARD_encode_TailNotShifted(b) ==
    IF Len(b) = 0 THEN ""
    ELSE IF Len(b) = 1
    THEN Sym(b[1] \div 4) \o Sym((b[1] % 4) * 16) \o "=="
    ELSE IF Len(b) = 2
    THEN Sym(b[1] \div 4) \o Sym((b[1] % 4) * 16 + (b[2] \div 16))
         \o Sym(b[2] % 16) \o "="
    ELSE Sym(b[1] \div 4) \o Sym((b[1] % 4) * 16 + (b[2] \div 16))
         \o Sym((b[2] % 16) * 4 + (b[3] \div 64)) \o Sym(b[3] % 64)
         \o STANDARD_encode_TailNotShifted(SubSeq(b, 4, Len(b)))

\* base64::engine::general_purpose::STANDARD.encode: padded standard base64
RECURSIVE STANDARD_encode(_)
STANDARD_encode(b) ==
    IF Len(b) = 0 THEN ""
    ELSE IF Len(b) = 1
    THEN Sym(b[1] \div 4) \o Sym((b[1] % 4) * 16) \o "=="
    ELSE IF Len(b) = 2
    THEN Sym(b[1] \div 4) \o Sym((b[1] % 4) * 16 + (b[2] \div 16))
         \o Sym((b[2] % 16) * 4) \o "="
    ELSE Sym(b[1] \div 4) \o Sym((b[1] % 4) * 16 + (b[2] \div 16))
         \o Sym((b[2] % 16) * 4 + (b[3] \div 64)) \o Sym(b[3] % 64)
         \o STANDARD_encode(SubSeq(b, 4, Len(b)))

\* data_url::forgiving_base64: the decoder state after the symbols of s.
\* buf holds the 6-bit values of the open group, pad counts the = seen.
RECURSIVE Base64Scan(_, _, _, _)
Base64Scan(s, buf, pad, out) ==
    IF Len(s) = 0 THEN [ok |-> TRUE, buf |-> buf, pad |-> pad, out |-> out]
    ELSE LET c == CharAt(s, 1)
             rest == SubSeq(s, 2, Len(s))
             v == IndexOf(Base64Alphabet, c) - 1
         IN  IF c = " " THEN Base64Scan(rest, buf, pad, out)
             ELSE IF c = "=" THEN Base64Scan(rest, buf, pad + 1, out)
             ELSE IF v < 0 THEN [ok |-> FALSE, buf |-> buf, pad |-> pad, out |-> out]
             ELSE IF pad > 0 THEN [ok |-> FALSE, buf |-> buf, pad |-> pad, out |-> out]
             ELSE IF Len(buf) = 3
             THEN Base64Scan(rest, <<>>, pad,
                      out \o << buf[1] * 4 + (buf[2] \div 16),
                                (buf[2] % 16) * 16 + (buf[3] \div 4),
                                (buf[3] % 4) * 64 + v >>)
             ELSE Base64Scan(rest, Append(buf, v), pad, out)

\* data_url::forgiving_base64::decode_to_vec: [ok, bytes]
ForgivingBase64(s) ==
    LET r == Base64Scan(s, <<>>, 0, <<>>)
    IN  IF ~r.ok THEN [ok |-> FALSE, bytes |-> <<>>]
        ELSE IF Len(r.buf) = 0 /\ r.pad = 0 THEN [ok |-> TRUE, bytes |-> r.out]
        ELSE IF Len(r.buf) = 2 /\ r.pad \in {0, 2}
        THEN [ok |-> TRUE, bytes |-> r.out \o <<r.buf[1] * 4 + (r.buf[2] \div 16)>>]
        ELSE IF Len(r.buf) = 3 /\ r.pad \in {0, 1}
        THEN [ok |-> TRUE,
              bytes |-> r.out \o << r.buf[1] * 4 + (r.buf[2] \div 16),
                                    (r.buf[2] % 16) * 16 + (r.buf[3] \div 4) >>]
        ELSE [ok |-> FALSE, bytes |-> <<>>]

(***************************************************************************)
(* Data URLs (crate data_url): DataUrl::process, mime_type, decode_to_vec  *)
(* Percent-escapes are not modelled: no modelled value contains a percent  *)
(* sign.                                                                   *)
(***************************************************************************)

UpperCase == "ABCDEFGHIJKLMNOPQRSTUVWXYZ"

LowerCase == "abcdefghijklmnopqrstuvwxyz"

\* str::to_ascii_lowercase
RECURSIVE to_ascii_lowercase(_)
to_ascii_lowercase(s) ==
    IF Len(s) = 0 THEN ""
    ELSE LET c == CharAt(s, 1)
             i == IndexOf(UpperCase, c)
         IN  (IF i = 0 THEN c ELSE CharAt(LowerCase, i))
             \o to_ascii_lowercase(SubSeq(s, 2, Len(s)))

\* str::trim_matches for the single character c, on both ends
RECURSIVE TrimEndMatches(_, _)
TrimEndMatches(s, c) ==
    IF Len(s) > 0 /\ CharAt(s, Len(s)) = c
    THEN TrimEndMatches(SubSeq(s, 1, Len(s) - 1), c)
    ELSE s

Trim(s) == TrimEndMatches(TrimStartMatches(s, " "), " ")

TokenChars == "!#$%&'*+-.^_|~0123456789" \o UpperCase \o LowerCase

\* data_url::mime::only_http_token_code_points
only_http_token_code_points(s) == \A i \in 1..Len(s) : IndexOf(TokenChars, CharAt(s, i)) # 0

\* data_url::mime::parse_parameters: the parameters name=value of the pieces,
\* without the pieces that have no =, an empty value, a name that is no
\* token, or a name already seen
RECURSIVE parse_parameters(_, _)
parse_parameters(pieces, acc) ==
    IF Len(pieces) = 0 THEN acc
    ELSE LET piece == TrimStartMatches(pieces[1], " ")
             nv == SplitN2(piece, "=")
             name == to_ascii_lowercase(nv[1])
             value == IF Len(nv) = 2 THEN TrimEndMatches(nv[2], " ") ELSE ""
             keep == /\ Len(nv) = 2
                     /\ Len(value) > 0
                     /\ Len(name) > 0
                     /\ only_http_token_code_points(name)
                     /\ \A i \in 1..Len(acc) : acc[i][1] # name
         IN  parse_parameters(Tail(pieces), IF keep THEN Append(acc, <<name, value>>) ELSE acc)

\* data_url::mime::Mime as a record; ok is FALSE when the text is no MIME type
mime_parse(s) ==
    LET trimmed == Trim(s)
        ts == SplitN2(trimmed, "/")
        type_ == ts[1]
        sp == IF Len(ts) = 2 THEN SplitN2(ts[2], ";") ELSE <<"">>
        subtype == TrimEndMatches(sp[1], " ")
    IN  IF /\ Len(ts) = 2
           /\ Len(type_) > 0 /\ only_http_token_code_points(type_)
           /\ Len(subtype) > 0 /\ only_http_token_code_points(subtype)
        THEN [ok |-> TRUE,
              type_ |-> to_ascii_lowercase(type_),
              subtype |-> to_ascii_lowercase(subtype),
              parameters |-> IF Len(sp) = 2
                             THEN parse_parameters(Split(sp[2], ";"), <<>>)
                             ELSE <<>>]
        ELSE [ok |-> FALSE, type_ |-> "", subtype |-> "", parameters |-> <<>>]

\* the fallback of data_url::parse_header
DefaultMime ==
    [ok |-> TRUE, type_ |-> "text", subtype |-> "plain",
     parameters |-> << <<"charset", "US-ASCII">> >>]

\* Display for Mime: type/subtype;name=value..., a value that is no token quoted
RECURSIVE parameters_to_string(_)
parameters_to_string(ps) ==
    IF Len(ps) = 0 THEN ""
    ELSE ";" \o ps[1][1] \o "="
         \o (IF only_http_token_code_points(ps[1][2]) THEN ps[1][2]
             ELSE "\"" \o ps[1][2] \o "\"")
         \o parameters_to_string(Tail(ps))

mime_to_string(m) == m.type_ \o "/" \o m.subtype \o parameters_to_string(m.parameters)

\* DataUrl::process reporting the media type as it is written in the URL
DataUrl_process_MediaTypeAsWritten(source_str) ==
    LET after_colon == SubSeq(source_str, 6, Len(source_str))
        before_fragment == SplitN2(after_colon, "#")[1]
        parts == SplitN2(before_fragment, ",")
        trimmed == Trim(parts[1])
        base64 == EndsWith(to_ascii_lowercase(TrimEndMatches(trimmed, " ")), ";base64")
        mime_text == IF base64 THEN SubSeq(trimmed, 1, Len(trimmed) - 7) ELSE trimmed
        body == IF Len(parts) = 2 THEN parts[2] ELSE ""
        dec == IF base64 THEN ForgivingBase64(body) ELSE [ok |-> TRUE, bytes |-> Bytes(body)]
    IN  IF ~StartsWith(to_ascii_lowercase(SubSeq(source_str, 1, 5)), "data:") \/ Len(parts) < 2
        THEN [ok |-> FALSE, decoded |-> FALSE, media_type |-> "", decoded_content |-> <<>>]
        ELSE [ok |-> TRUE, decoded |-> dec.ok,
              media_type |-> mime_text, decoded_content |-> dec.bytes]

\* DataUrl::process taking a URL without a comma for one with an empty body
DataUrl_process_NoCommaAsEmpty(source_str) ==
    LET after_colon == SubSeq(source_str, 6, Len(source_str))
        before_fragment == SplitN2(after_colon, "#")[1]
        parts == SplitN2(before_fragment, ",")
        trimmed == Trim(parts[1])
        base64 == EndsWith(to_ascii_lowercase(TrimEndMatches(trimmed, " ")), ";base64")
        mime_text == IF base64 THEN SubSeq(trimmed, 1, Len(trimmed) - 7) ELSE trimmed
        mime_full == IF StartsWith(mime_text, ";") THEN "text/plain" \o mime_text ELSE mime_text
        parsed == mime_parse(mime_full)
        mime == IF parsed.ok THEN parsed ELSE DefaultMime
        body == IF Len(parts) = 2 THEN parts[2] ELSE ""
        dec == IF base64 THEN ForgivingBase64(body) ELSE [ok |-> TRUE, bytes |-> Bytes(body)]
    IN  IF ~StartsWith(to_ascii_lowercase(SubSeq(source_str, 1, 5)), "data:")
        THEN [ok |-> FALSE, decoded |-> FALSE, media_type |-> "", decoded_content |-> <<>>]
        ELSE [ok |-> TRUE, decoded |-> dec.ok,
              media_type |-> mime_to_string(mime), decoded_content |-> dec.bytes]

\* DataUrl::process followed by mime_type().to_string() and decode_to_vec():
\*   ok      FALSE when process returns Err (no data: scheme, or no comma)
\*   decoded FALSE when decode_to_vec returns Err (invalid base64)
DataUrl_process(source_str) ==
    LET after_colon == SubSeq(source_str, 6, Len(source_str))
        before_fragment == SplitN2(after_colon, "#")[1]
        parts == SplitN2(before_fragment, ",")
        trimmed == Trim(parts[1])
        base64 == EndsWith(to_ascii_lowercase(TrimEndMatches(trimmed, " ")), ";base64")
        mime_text == IF base64 THEN SubSeq(trimmed, 1, Len(trimmed) - 7) ELSE trimmed
        mime_full == IF StartsWith(mime_text, ";") THEN "text/plain" \o mime_text ELSE mime_text
        parsed == mime_parse(mime_full)
        mime == IF parsed.ok THEN parsed ELSE DefaultMime
        body == IF Len(parts) = 2 THEN parts[2] ELSE ""
        dec == IF base64 THEN ForgivingBase64(body) ELSE [ok |-> TRUE, bytes |-> Bytes(body)]
    IN  IF ~StartsWith(to_ascii_lowercase(SubSeq(source_str, 1, 5)), "data:") \/ Len(parts) < 2
        THEN [ok |-> FALSE, decoded |-> FALSE, media_type |-> "", decoded_content |-> <<>>]
        ELSE [ok |-> TRUE, decoded |-> dec.ok,
              media_type |-> mime_to_string(mime), decoded_content |-> dec.bytes]

(***************************************************************************)
(* serde_json::Value                                                       *)
(***************************************************************************)

JNull == [t |-> "null"]

JBool(b) == [t |-> "bool", b |-> b]

JNum(n) == [t |-> "num", n |-> n]

JStr(s) == [t |-> "str", s |-> s]

JArr(a) == [t |-> "arr", a |-> a]

\* an object: the sequence of its <<key, value>> members, in key order
JObj(kv) == [t |-> "obj", kv |-> kv]

\* Map::contains_key
contains_key(map, key) == \E i \in 1..Len(map.kv) : map.kv[i][1] = key

\* Map::get, JNull standing for None
get(map, key) ==
    IF contains_key(map, key)
    THEN map.kv[CHOOSE i \in 1..Len(map.kv) : map.kv[i][1] = key][2]
    ELSE JNull

\* the children of a value, in iteration order
Children(v) ==
    IF v.t = "obj" THEN [i \in 1..Len(v.kv) |-> v.kv[i][2]]
    ELSE IF v.t = "arr" THEN v.a
    ELSE <<>>

\* the value at pointer ptr (a sequence of child positions)
RECURSIVE GetAt(_, _)
GetAt(v, ptr) == IF Len(ptr) = 0 THEN v ELSE GetAt(Children(v)[ptr[1]], Tail(ptr))

\* the assignment storing the new value under another key than the one it
\* was read from
RECURSIVE SetAt_RenamesKey(_, _, _)
SetAt_RenamesKey(v, ptr, new) ==
    IF Len(ptr) = 0 THEN new
    ELSE IF v.t = "obj"
    THEN JObj([v.kv EXCEPT ![ptr[1]] =
                 IF Len(ptr) = 1 THEN <<"content", new>>
                 ELSE <<v.kv[ptr[1]][1], SetAt_RenamesKey(v.kv[ptr[1]][2], Tail(ptr), new)>>])
    ELSE JArr([v.a EXCEPT ![ptr[1]] = SetAt_RenamesKey(v.a[ptr[1]], Tail(ptr), new)])

\* the assignment *val = new at pointer ptr
RECURSIVE SetAt(_, _, _)
SetAt(v, ptr, new) ==
    IF Len(ptr) = 0 THEN new
    ELSE IF v.t = "obj"
    THEN JObj([v.kv EXCEPT ![ptr[1]] = <<v.kv[ptr[1]][1], SetAt(v.kv[ptr[1]][2], Tail(ptr), new)>>])
    ELSE JArr([v.a EXCEPT ![ptr[1]] = SetAt(v.a[ptr[1]], Tail(ptr), new)])

RECURSIVE ConcatAll(_)
ConcatAll(ss) == IF Len(ss) = 0 THEN <<>> ELSE ss[1] \o ConcatAll(Tail(ss))

\* arr.iter().any(|item| item is an object that contains the key "source")
has_sources(val) ==
    /\ val.t = "arr"
    /\ \E j \in 1..Len(val.a) : val.a[j].t = "obj" /\ contains_key(val.a[j], "source")

\* the path in force inside an object: its own "path" string, else the inherited one
new_path_of(map, path) ==
    IF get(map, "path").t = "str" THEN get(map, "path").s ELSE path

\* has_path and some array member holds an object with a source
found_array_with_sources(map) ==
    /\ contains_key(map, "path")
    /\ \E i \in 1..Len(map.kv) : has_sources(map.kv[i][2])

\* is_default: null, "", [], {}, false and the number 0
is_default(value) ==
    CASE value.t = "null" -> TRUE
      [] value.t = "str" -> Len(value.s) = 0
      [] value.t = "arr" -> Len(value.a) = 0
      [] value.t = "obj" -> Len(value.kv) = 0
      [] value.t = "bool" -> ~value.b
      [] value.t = "num" -> value.n = 0

\* remove_default_values: the members and elements that are default now are
\* dropped (retain), then the kept ones are treated the same way
RECURSIVE remove_default_values(_)
remove_default_values(value) ==
    IF value.t = "obj"
    THEN LET kept == SelectSeq(value.kv, LAMBDA m : ~is_default(m[2]))
         IN  JObj([i \in 1..Len(kept) |-> <<kept[i][1], remove_default_values(kept[i][2])>>])
    ELSE IF value.t = "arr"
    THEN LET kept == SelectSeq(value.a, LAMBDA v : ~is_default(v))
         IN  JArr([i \in 1..Len(kept) |-> remove_default_values(kept[i])])
    ELSE value

\* One visit of the walk: the string value under a key "source" at ptr, the
\* path handed to it, and whether it is handled as an array element
Visit(ptr, path, is_array, index) ==
    [ptr |-> ptr, path |-> path, is_array |-> is_array, index |-> index]

(***************************************************************************)
(* The extraction walk.  Each operator returns the visits of the string    *)
(* "source" members in the order the recursion reaches them.               *)
(***************************************************************************)

RECURSIVE process_nested_sources_with_path_update(_, _, _, _)
process_nested_sources_with_path_update(value, ptr, path, index) ==
    IF value.t = "obj"
    THEN ConcatAll([i \in 1..Len(value.kv) |->
            IF value.kv[i][1] = "source"
            THEN IF value.kv[i][2].t = "str"
                 THEN <<Visit(ptr \o <<i>>, path, TRUE, index)>>
                 ELSE <<>>
            ELSE process_nested_sources_with_path_update(
                     value.kv[i][2], ptr \o <<i>>, path, index)])
    ELSE IF value.t = "arr"
    THEN ConcatAll([j \in 1..Len(value.a) |->
            process_nested_sources_with_path_update(value.a[j], ptr \o <<j>>, path, index)])
    ELSE <<>>

process_array_item_sources_with_path_update(item, ptr, path, index) ==
    IF item.t = "obj"
    THEN ConcatAll([i \in 1..Len(item.kv) |->
            IF item.kv[i][1] = "source"
            THEN IF item.kv[i][2].t = "str"
                 THEN <<Visit(ptr \o <<i>>, path, TRUE, index)>>
                 ELSE <<>>
            ELSE process_nested_sources_with_path_update(
                     item.kv[i][2], ptr \o <<i>>, path, index)])
    ELSE <<>>

RECURSIVE find_and_replace_source_with_path_update(_, _, _)
find_and_replace_source_with_path_update(value, ptr, path) ==
    IF value.t = "obj"
    THEN LET new_path == new_path_of(value, path)
             found == found_array_with_sources(value)
         IN  ConcatAll([i \in 1..Len(value.kv) |->
                LET key == value.kv[i][1]
                    val == value.kv[i][2]
                IN  IF key = "source"
                    THEN IF val.t = "str"
                         THEN <<Visit(ptr \o <<i>>, new_path, FALSE, 0)>>
                         ELSE <<>>
                    ELSE IF found /\ key # "path" /\ has_sources(val)
                    THEN ConcatAll([j \in 1..Len(val.a) |->
                            process_array_item_sources_with_path_update(
                                val.a[j], ptr \o <<i, j>>, new_path, j - 1)])
                    ELSE find_and_replace_source_with_path_update(
                             val, ptr \o <<i>>, new_path)])
    ELSE IF value.t = "arr"
    THEN ConcatAll([j \in 1..Len(value.a) |->
            find_and_replace_source_with_path_update(value.a[j], ptr \o <<j>>, path)])
    ELSE <<>>

(***************************************************************************)
(* The embedding walk: the same traversal, with the closure of             *)
(* assemble_v3_config applied at every visit.                              *)
(***************************************************************************)

RECURSIVE process_nested_sources(_, _, _, _)
process_nested_sources(value, ptr, path, index) ==
    IF value.t = "obj"
    THEN ConcatAll([i \in 1..Len(value.kv) |->
            IF value.kv[i][1] = "source"
            THEN IF value.kv[i][2].t = "str"
                 THEN <<Visit(ptr \o <<i>>, path, TRUE, index)>>
                 ELSE <<>>
            ELSE process_nested_sources(value.kv[i][2], ptr \o <<i>>, path, index)])
    ELSE IF value.t = "arr"
    THEN ConcatAll([j \in 1..Len(value.a) |->
            process_nested_sources(value.a[j], ptr \o <<j>>, path, index)])
    ELSE <<>>

process_array_item_sources(item, ptr, path, index) ==
    IF item.t = "obj"
    THEN ConcatAll([i \in 1..Len(item.kv) |->
            IF item.kv[i][1] = "source"
            THEN IF item.kv[i][2].t = "str"
                 THEN <<Visit(ptr \o <<i>>, path, TRUE, index)>>
                 ELSE <<>>
            ELSE process_nested_sources(item.kv[i][2], ptr \o <<i>>, path, index)])
    ELSE <<>>

RECURSIVE find_and_replace_source(_, _, _)
find_and_replace_source(value, ptr, path) ==
    IF value.t = "obj"
    THEN LET new_path == new_path_of(value, path)
             found == found_array_with_sources(value)
         IN  ConcatAll([i \in 1..Len(value.kv) |->
                LET key == value.kv[i][1]
                    val == value.kv[i][2]
                IN  IF key = "source"
                    THEN IF val.t = "str"
                         THEN <<Visit(ptr \o <<i>>, new_path, FALSE, 0)>>
                         ELSE <<>>
                    ELSE IF found /\ key # "path" /\ has_sources(val)
                    THEN ConcatAll([j \in 1..Len(val.a) |->
                            process_array_item_sources(
                                val.a[j], ptr \o <<i, j>>, new_path, j - 1)])
                    ELSE find_and_replace_source(val, ptr \o <<i>>, new_path)])
    ELSE IF value.t = "arr"
    THEN ConcatAll([j \in 1..Len(value.a) |->
            find_and_replace_source(value.a[j], ptr \o <<j>>, path)])
    ELSE <<>>

(***************************************************************************)
(* Paths and the filesystem (std::path, std::fs)                           *)
(* A path is the sequence of its components below the filesystem root; fs  *)
(* maps every existing resolved path to a directory or a file.             *)
(***************************************************************************)

DirEntry == [kind |-> "dir", bytes |-> <<>>, json |-> JNull]

\* a file written from bytes
FileEntry(bytes) == [kind |-> "file", bytes |-> bytes, json |-> JNull]

\* a file holding the serialization of a document
\* (serde_json::to_string_pretty on write, Config::parse_str on read)
JsonFile(doc) == [kind |-> "file", bytes |-> <<>>, json |-> doc]

\* Path::components: empty components and "." are dropped
RECURSIVE DropDots(_)
DropDots(cs) ==
    IF Len(cs) = 0 THEN <<>>
    ELSE IF cs[1] \in {"", "."} THEN DropDots(Tail(cs))
    ELSE <<cs[1]>> \o DropDots(Tail(cs))

Components(s) == DropDots(Split(s, "/"))

\* Path::join: an absolute argument replaces the base
join(base, rel) == IF StartsWith(rel, "/") THEN Components(rel) ELSE base \o Components(rel)

\* the location the operating system reaches along the components
RECURSIVE Resolve(_)
Resolve(cs) ==
    IF Len(cs) = 0 THEN <<>>
    ELSE LET before == Resolve(SubSeq(cs, 1, Len(cs) - 1))
         IN  IF cs[Len(cs)] = ".."
             THEN IF Len(before) = 0 THEN <<>> ELSE SubSeq(before, 1, Len(before) - 1)
             ELSE Append(before, cs[Len(cs)])

Put(f, p, e) == [q \in (DOMAIN f) \cup {p} |-> IF q = p THEN e ELSE f[q]]

IsDir(f, p) == p \in DOMAIN f /\ f[p].kind = "dir"

IsFile(f, p) == p \in DOMAIN f /\ f[p].kind = "file"

\* fs::create_dir_all: creates the missing directories along cs, fails when a
\* component exists as a file
RECURSIVE create_dir_all(_, _, _)
create_dir_all(f, cs, k) ==
    IF k > Len(cs) THEN [ok |-> TRUE, fs |-> f]
    ELSE LET r == Resolve(SubSeq(cs, 1, k))
         IN  IF IsDir(f, r) THEN create_dir_all(f, cs, k + 1)
             ELSE IF IsFile(f, r) THEN [ok |-> FALSE, fs |-> f]
             ELSE create_dir_all(Put(f, r, DirEntry), cs, k + 1)

\* every proper prefix of cs leads to an existing directory
Reachable(f, cs) == \A k \in 0..(Len(cs) - 1) : IsDir(f, Resolve(SubSeq(cs, 1, k)))

\* fs::write: creates or truncates the file, fails on a directory or a
\* missing parent
fs_write(f, cs, entry) ==
    IF Len(cs) > 0 /\ Reachable(f, cs) /\ ~IsDir(f, Resolve(cs))
    THEN [ok |-> TRUE, fs |-> Put(f, Resolve(cs), entry)]
    ELSE [ok |-> FALSE, fs |-> f]

\* a read that takes a missing file for an empty one
fs_read_MissingAsEmpty(f, cs) ==
    IF Reachable(f, cs) /\ IsFile(f, Resolve(cs))
    THEN [ok |-> TRUE, bytes |-> f[Resolve(cs)].bytes]
    ELSE [ok |-> TRUE, bytes |-> <<>>]

\* fs::read
fs_read(f, cs) ==
    IF Reachable(f, cs) /\ IsFile(f, Resolve(cs))
    THEN [ok |-> TRUE, bytes |-> f[Resolve(cs)].bytes]
    ELSE [ok |-> FALSE, bytes |-> <<>>]

\* Path::extension of a file name: the text after the last dot, "" when the
\* name has no dot or only a leading one
extension(name) ==
    LET dots == {i \in 1..Len(name) : CharAt(name, i) = "."}
        last == CHOOSE i \in dots : \A j \in dots : j <= i
    IN  IF dots = {} THEN ""
        ELSE IF last = 1 THEN ""
        ELSE SubSeq(name, last + 1, Len(name))

\* the directory given as target_dir to disassemble and as ignition_dir to assemble
output_dir == <<"work", "decoded">>

\* the file given as target_file to assemble
target_file == <<"work", "output.ign">>

\* p lies inside the directory d
Inside(p, d) == Len(p) > Len(d) /\ SubSeq(p, 1, Len(d)) = d

(***************************************************************************)
(* Documents: the inputs of disassemble                                    *)
(***************************************************************************)

\* a resource object holding only a source
Resource(source) == JObj(<< <<"source", JStr(source)>> >>)

\* a document of version 3.4.0 with the given storage.files
ConfigWithFiles(files) ==
    JObj(<< <<"ignition", JObj(<< <<"version", JStr("3.4.0")>> >>)>>,
            <<"storage", JObj(<< <<"files", JArr(files)>> >>)>> >>)

\* storage.files[] entry with contents
FileWithContents(path, mode, source) ==
    JObj(<< <<"contents", Resource(source)>>, <<"mode", JNum(mode)>>, <<"path", JStr(path)>> >>)

\* storage.files[] entry with an append list
FileWithAppend(path, mode, sources) ==
    JObj(<< <<"append", JArr([i \in 1..Len(sources) |-> Resource(sources[i])])>>,
            <<"mode", JNum(mode)>>, <<"path", JStr(path)>> >>)

DocScenarioA ==
    ConfigWithFiles(<< FileWithContents("/etc/test", 420, "data:;base64,dGVzdCBjb250ZW50") >>)

DocRoundtrip ==
    ConfigWithFiles(<< FileWithContents("/etc/test", 420,
        "data:text/plain;charset=US-ASCII;base64,dGVzdCBjb250ZW50") >>)

DocScenarioB ==
    ConfigWithFiles(<< FileWithAppend("/etc/motd", 420,
        << "data:text/plain;charset=utf-8;base64,SGVsbG8gV29ybGQ=",
           "data:text/plain;charset=utf-8;base64,R29vZGJ5ZSBXb3JsZA==" >>) >>)

DocArraySources ==
    ConfigWithFiles(<<
        FileWithContents("/etc/test-single", 420,
            "data:text/plain;charset=utf-8;base64,U2luZ2xlIGZpbGU="),
        FileWithAppend("/etc/test-array", 644,
            << "data:text/plain;charset=utf-8;base64,Rmlyc3QgZW50cnk=",
               "data:text/plain;charset=utf-8;base64,U2Vjb25kIGVudHJ5" >>) >>)

\* the decomposed form of the test documents
DocPlaceholder ==
    ConfigWithFiles(<< FileWithContents("/etc/test", 420,
        "data:text/plain;charset=US-ASCII;base64-placeholder,etc/test") >>)

\* a Logical Path with a parent-directory segment
DocTraversal ==
    ConfigWithFiles(<< FileWithContents("/../evil", 420, "data:,x") >>)

\* content fields below no path declaration: ignition.config.merge and replace
DocNoPath ==
    JObj(<< <<"ignition", JObj(<<
                <<"config", JObj(<<
                    <<"merge", JArr(<< Resource("data:,a"),
                                       Resource("data:application/json;base64,e30=") >>)>>,
                    <<"replace", Resource("data:text/css,b")>> >>)>>,
                <<"version", JStr("3.4.0")>> >>)>> >>)

\* a remote source next to an inline one without padding
DocRemote ==
    ConfigWithFiles(<< FileWithContents("/etc/remote", 420, "https://example.com/motd"),
                       FileWithContents("/etc/local", 420, "data:text/plain;base64,aGk") >>)

\* the scheme prefix without a comma
DocNoComma ==
    ConfigWithFiles(<< FileWithContents("/etc/ok", 420, "data:,ok"),
                       FileWithContents("/etc/bad", 420, "data:nocomma") >>)

\* an invalid base64 payload
DocBadBase64 ==
    ConfigWithFiles(<< FileWithContents("/etc/bad", 420, "data:;base64,a") >>)

\* a file entry with both contents and append
DocBoth ==
    ConfigWithFiles(<<
        JObj(<< <<"append", JArr(<< Resource("data:,more") >>)>>,
                <<"contents", Resource("data:,first")>>,
                <<"path", JStr("/etc/both")>> >>) >>)

\* two file entries with one path
DocDuplicate ==
    ConfigWithFiles(<< FileWithContents("/etc/dup", 420, "data:,one"),
                       FileWithContents("/etc/dup", 420, "data:,two") >>)

\* a file entry whose members hold default values: mode 0, overwrite false
\* and the user with id 0
DocDefaults ==
    ConfigWithFiles(<<
        JObj(<< <<"contents", Resource("data:,a")>>,
                <<"mode", JNum(0)>>,
                <<"overwrite", JBool(FALSE)>>,
                <<"path", JStr("/etc/zero")>>,
                <<"user", JObj(<< <<"id", JNum(0)>> >>)>> >>) >>)

\* Values of shapes the walk accepts (it inspects nothing but the keys "path"
\* and "source" and the kinds of the values) that no schema version names
\* today: two arrays of sources in one object that declares a path ...
TreeTwoArrays ==
    JObj(<< <<"first", JArr(<< Resource("data:,x") >>)>>,
            <<"path", JStr("/a")>>,
            <<"second", JArr(<< Resource("data:,y") >>)>> >>)

\* ... an array element that carries a source and, deeper, an object that
\* declares a path of its own and carries another source ...
TreeNestedInElement ==
    JObj(<< <<"items", JArr(<<
                JObj(<< <<"inner", JObj(<< <<"path", JStr("/b")>>,
                                           <<"source", JStr("data:,y")>> >>)>>,
                        <<"source", JStr("data:,x")>> >>) >>)>>,
            <<"path", JStr("/a")>> >>)

\* ... and an array of sources held by an object that declares no path inside
\* one that does
TreeInheritedArray ==
    JObj(<< <<"group", JObj(<< <<"items", JArr(<< Resource("data:,x"),
                                                 Resource("data:,y") >>)>> >>)>>,
            <<"path", JStr("/a")>> >>)

\* a source that is not a string, followed by an object with an inline source
TreeSourceNotString ==
    JObj(<< <<"path", JStr("/a")>>,
            <<"source", JNull>>,
            <<"tail", Resource("data:,y")>> >>)

ValueTrees == { TreeTwoArrays, TreeNestedInElement, TreeInheritedArray, TreeSourceNotString }

\* a file whose Logical Path names a file with the extension ign at the top
\* of the output directory
DocIgnPath ==
    ConfigWithFiles(<< FileWithContents("/foo.ign", 420, "data:,x") >>)

InputDocs ==
    { DocScenarioA, DocRoundtrip, DocScenarioB, DocArraySources, DocPlaceholder,
      DocTraversal, DocNoPath, DocRemote, DocNoComma, DocBadBase64, DocBoth, DocDuplicate,
      DocDefaults, DocIgnPath } \cup ValueTrees

(***************************************************************************)
(* Prepared ignition directories: the inputs of assemble that no           *)
(* disassemble produced (as in test_assemble)                              *)
(***************************************************************************)

\* a placeholder whose reference climbs out of the ignition directory
DocRefParent ==
    ConfigWithFiles(<< FileWithContents("/etc/test", 420,
        "data:text/plain;base64-placeholder,../secret") >>)

\* a placeholder whose reference is absolute
DocRefAbsolute ==
    ConfigWithFiles(<< FileWithContents("/etc/test", 420,
        "data:text/plain;base64-placeholder,/work/secret") >>)

\* a placeholder whose file exists next to one whose file does not
DocRefMissing ==
    ConfigWithFiles(<< FileWithContents("/etc/test", 420,
                           "data:text/plain;base64-placeholder,etc/test"),
                       FileWithContents("/etc/gone", 420,
                           "data:text/plain;base64-placeholder,etc/gone") >>)

\* a remote URL that holds the marker of a placeholder
DocRemoteWithMarker ==
    ConfigWithFiles(<< FileWithContents("/etc/test", 420,
        "https://example.com/x;base64-placeholder,etc/test") >>)

\* the decomposed form of the test documents with another declared path
DocPathMoved ==
    ConfigWithFiles(<< FileWithContents("/var/moved", 420,
        "data:text/plain;charset=US-ASCII;base64-placeholder,etc/test") >>)

PreparedDocs ==
    { DocPlaceholder, DocRefParent, DocRefAbsolute, DocRefMissing, DocRemoteWithMarker,
      DocPathMoved }

\* the filesystem before any operation: the working directory and a file in
\* it that belongs to no ignition directory
BaseFs ==
    Put(Put(Put(<<>> :> DirEntry, <<>>, DirEntry), <<"work">>, DirEntry),
        <<"work", "secret">>, FileEntry(Bytes("key")))

\* what the target file holds when it exists before the operation
OldTarget == FileEntry(Bytes("old ignition content"))

\* the target file exists before the operation (test_assemble_replace_flag)
WithTargetFile(f) == Put(f, target_file, OldTarget)

\* the target directory exists before the operation and holds files of an
\* earlier use (test_disassemble_replace_flag)
WithTargetDir(f) ==
    Put(Put(Put(Put(f, output_dir, DirEntry),
                output_dir \o <<"existing_file">>, FileEntry(Bytes("old content"))),
            output_dir \o <<"old">>, DirEntry),
        output_dir \o <<"old", "keep">>, FileEntry(Bytes("keep")))

\* the filesystems a disassemble may start from: nothing of the targets
\* exists, or both targets exist
StartFs == { BaseFs, WithTargetFile(WithTargetDir(BaseFs)) }

\* fs::remove_dir_all: the directory and everything inside it are removed
remove_dir_all(f, d) == [q \in {p \in DOMAIN f : p # d /\ ~Inside(p, d)} |-> f[q]]

\* fs::remove_file
remove_file(f, p) == [q \in (DOMAIN f) \ {p} |-> f[q]]

\* the ignition directory of test_assemble holding the decomposed document doc
PreparedFs(doc) ==
    Put(Put(Put(Put(BaseFs, output_dir, DirEntry),
                output_dir \o <<"decoded.ign">>, JsonFile(doc)),
            output_dir \o <<"etc">>, DirEntry),
        output_dir \o <<"etc", "test">>, FileEntry(Bytes("test content")))

(***************************************************************************)
(* Extraction of one content field                                         *)
(***************************************************************************)

\* the extension table for a synthesized name
extension_of(media_type) ==
    CASE media_type = "text/plain" -> "data"
      [] media_type = "application/json" -> "json"
      [] media_type \in {"application/yaml", "text/yaml", "application/x-yaml", "text/x-yaml"}
           -> "yaml"
      [] media_type \in {"application/xml", "text/xml"} -> "xml"
      [] media_type = "text/html" -> "html"
      [] media_type = "application/javascript" -> "js"
      [] media_type = "text/css" -> "css"
      [] OTHER -> "data"

\* effective_path with a synthesized name that leaves the counter out
effective_path_NoCounter(path, media_type, counter) ==
    LET relative_path == TrimStartMatches(path, "/")
    IN  IF Len(relative_path) = 0
        THEN "extracted_file." \o extension_of(media_type)
        ELSE relative_path

\* the path below the output directory: the Logical Path without its leading
\* separators, or a name made of the counter when that is empty
effective_path(path, media_type, counter) ==
    LET relative_path == TrimStartMatches(path, "/")
    IN  IF Len(relative_path) = 0
        THEN "extracted_file_" \o to_string(counter) \o "." \o extension_of(media_type)
        ELSE relative_path

\* the reference stored in the placeholder of a visit
external_ref(v, media_type, counter) ==
    IF v.is_array
    THEN effective_path(v.path, media_type, counter) \o "/" \o to_string(v.index)
    ELSE effective_path(v.path, media_type, counter)

\* the placeholder without the media type
placeholder_NoMediaType(media_type, ref) == "data:;base64-placeholder," \o ref

\* format!("data:{};base64-placeholder,{}", media_type, ref)
placeholder(media_type, ref) == "data:" \o media_type \o ";base64-placeholder," \o ref

\* a lone field: the parent directory of the file is created, then the file
\* is written
write_lone_file(f, effective, decoded_content) ==
    LET file_path == join(output_dir, effective)
        dirs == IF Len(file_path) = 0 THEN [ok |-> TRUE, fs |-> f]
                ELSE create_dir_all(f, SubSeq(file_path, 1, Len(file_path) - 1), 1)
        written == fs_write(dirs.fs, file_path, FileEntry(decoded_content))
    IN  [ok |-> dirs.ok /\ written.ok,
         fs |-> IF dirs.ok THEN written.fs ELSE dirs.fs,
         target |-> Resolve(file_path)]

\* write_indexed_file naming the file by the one-based position of the element
write_indexed_file_OneBased(f, effective, index, decoded_content) ==
    LET dir_path == join(output_dir, effective)
        dirs == create_dir_all(f, dir_path, 1)
        file_path == dir_path \o <<to_string(index + 1)>>
        written == fs_write(dirs.fs, file_path, FileEntry(decoded_content))
    IN  [ok |-> dirs.ok /\ written.ok,
         fs |-> IF dirs.ok THEN written.fs ELSE dirs.fs,
         target |-> Resolve(file_path)]

\* an array element: the path becomes a directory and the file named by the
\* index is written inside
write_indexed_file(f, effective, index, decoded_content) ==
    LET dir_path == join(output_dir, effective)
        dirs == create_dir_all(f, dir_path, 1)
        file_path == dir_path \o <<to_string(index)>>
        written == fs_write(dirs.fs, file_path, FileEntry(decoded_content))
    IN  [ok |-> dirs.ok /\ written.ok,
         fs |-> IF dirs.ok THEN written.fs ELSE dirs.fs,
         target |-> Resolve(file_path)]

\* the write put off: the location is computed and nothing is written
write_extracted_PutOff(f, v, media_type, counter, decoded_content) ==
    [ok |-> TRUE,
     fs |-> f,
     target |-> Resolve(join(output_dir, external_ref(v, media_type, counter)))]

\* create the directories and write the decoded bytes of a visit
write_extracted(f, v, media_type, counter, decoded_content) ==
    IF v.is_array
    THEN write_indexed_file(f, effective_path(v.path, media_type, counter), v.index,
                            decoded_content)
    ELSE write_lone_file(f, effective_path(v.path, media_type, counter), decoded_content)

(***************************************************************************)
(* State                                                                   *)
(***************************************************************************)

VARIABLES
    input,        \* the document given to disassemble (JNull for a prepared directory)
    origin,       \* "disassembled" or "prepared": where the ignition directory comes from
    pc,           \* the position of the running operation
    json_value,   \* the document being transformed in place
    todo,         \* the visits of the walk not made yet
    file_counter, \* the counter of the running operation
    pending,      \* the placeholder of a field whose file is written but which is not rewritten yet
    fs,           \* the filesystem
    writes,       \* the content files written by disassemble, in order
    reads,        \* the resolved paths of the content files read by assemble, in order
    edits,        \* how many content files were edited between the operations
    decomposed,   \* the document assemble parsed from the ignition directory
    action,       \* the --action argument of the running operation
    default,      \* the --default argument of assemble
    error,        \* the message of the error the operation ended with, "" when none
    fs_start      \* the filesystem as the running operation found it

vars == <<input, origin, pc, json_value, todo, file_counter, pending, fs, writes, reads,
          edits, decomposed, action, default, error, fs_start>>

\* enum Action
Actions == {"new", "add", "replace"}

\* how many edits of content files a run makes at most
MaxEdits == 1

\* the bytes an edit may store
EditContents == { Bytes("edited") }

\* Either a document is about to be disassembled, or an ignition directory
\* was prepared by hand and waits to be assembled (pc as after a finished
\* disassemble).  The targets of the operations exist already or do not.
Init ==
    /\ \/ /\ origin = "disassembled"
          /\ input \in InputDocs
          /\ pc = "start"
          /\ fs \in StartFs
       \/ /\ origin = "prepared"
          /\ input = JNull
          /\ pc = "dis_done"
          /\ \E doc \in PreparedDocs : fs \in {PreparedFs(doc), WithTargetFile(PreparedFs(doc))}
    /\ action = "new"
    /\ default = FALSE
    /\ error = ""
    /\ fs_start = fs
    /\ json_value = JNull
    /\ todo = <<>>
    /\ file_counter = 0
    /\ pending = ""
    /\ writes = <<>>
    /\ reads = <<>>
    /\ edits = 0
    /\ decomposed = JNull

(***************************************************************************)
(* disassemble                                                             *)
(***************************************************************************)

\* the handling of the target directory with New taken for Add
handle_target_dir_NewAsAdd(f, a) ==
    LET exists == output_dir \in DOMAIN f
    IN  IF exists /\ a = "replace" /\ ~IsDir(f, output_dir)
        THEN [error |-> "Failed to remove existing target directory", fs |-> f]
        ELSE LET cleared == IF exists /\ a = "replace" THEN remove_dir_all(f, output_dir)
                            ELSE f
                 made == create_dir_all(cleared, output_dir, 1)
             IN  [error |-> IF made.ok THEN "" ELSE "Failed to create output directory",
                  fs |-> made.fs]

\* the handling of the target directory with Replace taken for Add
handle_target_dir_ReplaceAsAdd(f, a) ==
    LET exists == output_dir \in DOMAIN f
    IN  IF exists /\ a = "new"
        THEN [error |-> "Target directory already exists", fs |-> f]
        ELSE LET made == create_dir_all(f, output_dir, 1)
             IN  [error |-> IF made.ok THEN "" ELSE "Failed to create output directory",
                  fs |-> made.fs]

\* the handling of the target directory: when it exists New fails, Add keeps
\* it and Replace removes it with all it holds; then it is created
handle_target_dir(f, a) ==
    LET exists == output_dir \in DOMAIN f
    IN  IF exists /\ a = "new"
        THEN [error |-> "Target directory already exists", fs |-> f]
        ELSE IF exists /\ a = "replace" /\ ~IsDir(f, output_dir)
        THEN [error |-> "Failed to remove existing target directory", fs |-> f]
        ELSE LET cleared == IF exists /\ a = "replace" THEN remove_dir_all(f, output_dir)
                            ELSE f
                 made == create_dir_all(cleared, output_dir, 1)
             IN  [error |-> IF made.ok THEN "" ELSE "Failed to create output directory",
                  fs |-> made.fs]

\* disassemble_ignition up to the call of the walk: the target directory is
\* handled as the action says, the document becomes a serde_json::Value, the
\* counter starts at 0.  The walk rewrites string values only, so the visits
\* it will make are those the recursion finds in the document as it is now.
DisassembleStart ==
    /\ pc = "start"
    /\ \E a \in Actions :
          LET handled == handle_target_dir(fs, a)
          IN  /\ action' = a
              /\ error' = handled.error
              /\ fs' = handled.fs
              /\ IF handled.error # ""
                 THEN /\ pc' = "dis_err"
                      /\ UNCHANGED <<json_value, todo>>
                 ELSE /\ pc' = "dis_walk"
                      /\ json_value' = input
                      /\ todo' = find_and_replace_source_with_path_update(input, <<>>, "")
    /\ fs_start' = fs
    /\ file_counter' = 0
    /\ UNCHANGED <<input, origin, pending, writes, reads, edits, decomposed, default>>

\* the test for inline content taking every value with a scheme for inline
starts_with_data_AnyScheme(source_str) == Contains(source_str, ":")

\* source_str.starts_with("data:"): the test for inline content
starts_with_data(source_str) == StartsWith(source_str, "data:")

\* a visit of a source: a value without the scheme prefix is passed over; an
\* inline value is parsed and decoded and its bytes written to the file
ExtractWrite ==
    /\ pc = "dis_walk"
    /\ pending = ""
    /\ Len(todo) > 0
    /\ LET v == Head(todo)
           source_str == GetAt(json_value, v.ptr).s
           url == DataUrl_process(source_str)
           w == write_extracted(fs, v, url.media_type, file_counter, url.decoded_content)
       IN  IF ~starts_with_data(source_str)
           THEN /\ todo' = Tail(todo)
                /\ UNCHANGED <<pc, pending, fs, writes, error>>
           ELSE IF ~url.ok
           THEN /\ pc' = "dis_err"
                /\ error' = "Failed to parse data URL"
                /\ UNCHANGED <<todo, pending, fs, writes>>
           ELSE IF ~url.decoded
           THEN /\ pc' = "dis_panic"
                /\ UNCHANGED <<todo, pending, fs, writes, error>>
           ELSE IF ~w.ok
           THEN /\ pc' = "dis_err"
                /\ error' = "io error"
                /\ fs' = w.fs
                /\ UNCHANGED <<todo, pending, writes>>
           ELSE /\ fs' = w.fs
                /\ pending' = placeholder(url.media_type,
                                          external_ref(v, url.media_type, file_counter))
                /\ writes' = Append(writes,
                       [ptr |-> v.ptr, path |-> v.path, is_array |-> v.is_array,
                        index |-> v.index, source |-> source_str,
                        media_type |-> url.media_type,
                        ref |-> external_ref(v, url.media_type, file_counter),
                        target |-> w.target, bytes |-> url.decoded_content,
                        counter |-> file_counter])
                /\ UNCHANGED <<pc, todo, error>>
    /\ UNCHANGED <<input, origin, json_value, file_counter, reads, edits, decomposed,
                   action, default,
                   fs_start>>

\* the counter left as it is after a conversion
increment_Forgotten(counter) == counter

\* *file_counter += 1
increment(counter) == counter + 1

\* the field is rewritten to the placeholder and the counter incremented
ExtractRewrite ==
    /\ pc = "dis_walk"
    /\ pending # ""
    /\ json_value' = SetAt(json_value, Head(todo).ptr, JStr(pending))
    /\ file_counter' = increment(file_counter)
    /\ pending' = ""
    /\ todo' = Tail(todo)
    /\ UNCHANGED <<input, origin, pc, fs, writes, reads, edits, decomposed, action, default,
                   error,
                   fs_start>>

\* the walk is over: decoded.ign is written
DisassembleFinish ==
    /\ pc = "dis_walk"
    /\ pending = ""
    /\ Len(todo) = 0
    /\ LET w == fs_write(fs, output_dir \o <<"decoded.ign">>, JsonFile(json_value))
       IN  /\ fs' = w.fs
           /\ pc' = IF w.ok THEN "dis_done" ELSE "dis_err"
           /\ error' = IF w.ok THEN "" ELSE "Failed to write decoded.ign"
    /\ UNCHANGED <<input, origin, json_value, todo, file_counter, pending, writes, reads,
                   edits, decomposed, action, default,
                   fs_start>>

(***************************************************************************)
(* The operator edits an extracted content file between the operations     *)
(***************************************************************************)

EditFile ==
    /\ pc = "dis_done"
    /\ edits < MaxEdits
    /\ \E p \in DOMAIN fs, b \in EditContents :
          /\ Inside(p, output_dir)
          /\ fs[p].kind = "file"
          /\ fs[p].json = JNull
          /\ fs[p].bytes # b
          /\ fs' = Put(fs, p, FileEntry(b))
    /\ edits' = edits + 1
    /\ UNCHANGED <<input, origin, pc, json_value, todo, file_counter, pending, writes, reads,
                   decomposed, action, default, error,
                   fs_start>>

(***************************************************************************)
(* assemble                                                                *)
(***************************************************************************)

\* the files directly in the ignition directory whose extension is ign
IgnCandidates(f) ==
    {p \in DOMAIN f : /\ Len(p) = Len(output_dir) + 1
                      /\ Inside(p, output_dir)
                      /\ f[p].kind = "file"
                      /\ extension(p[Len(p)]) = "ign"}

\* the handling of the target file with New taken for Replace
handle_target_file_NewAsReplace(f, a) ==
    LET exists == target_file \in DOMAIN f
    IN  IF exists /\ ~IsFile(f, target_file)
        THEN [error |-> "Failed to remove existing target file", fs |-> f]
        ELSE [error |-> "", fs |-> IF exists THEN remove_file(f, target_file) ELSE f]

\* the handling of the target file: when it exists New fails, Add and Replace
\* remove it
handle_target_file(f, a) ==
    LET exists == target_file \in DOMAIN f
    IN  IF exists /\ a = "new"
        THEN [error |-> "Target file already exists", fs |-> f]
        ELSE IF exists /\ ~IsFile(f, target_file)
        THEN [error |-> "Failed to remove existing target file", fs |-> f]
        ELSE [error |-> "", fs |-> IF exists THEN remove_file(f, target_file) ELSE f]

\* assemble_ignition up to the call of the walk: the target file is handled
\* as the action says, then the first .ign file that read_dir yields is parsed
AssembleStart ==
    /\ pc = "dis_done"
    /\ \E a \in Actions, d \in BOOLEAN :
          LET handled == handle_target_file(fs, a)
          IN  /\ action' = a
              /\ default' = d
              /\ fs' = handled.fs
              /\ IF handled.error # ""
                 THEN /\ pc' = "asm_err"
                      /\ error' = handled.error
                      /\ UNCHANGED <<json_value, todo, decomposed>>
                 ELSE IF IgnCandidates(handled.fs) = {}
                 THEN /\ pc' = "asm_err"
                      /\ error' = "No .ign file found in ignition_dir"
                      /\ UNCHANGED <<json_value, todo, decomposed>>
                 ELSE \E p \in IgnCandidates(handled.fs) :
                        IF handled.fs[p].json = JNull
                        THEN /\ pc' = "asm_err"
                             /\ error' = "Failed to parse decoded Ignition file"
                             /\ UNCHANGED <<json_value, todo, decomposed>>
                        ELSE /\ pc' = "asm_walk"
                             /\ error' = ""
                             /\ json_value' = handled.fs[p].json
                             /\ decomposed' = handled.fs[p].json
                             /\ todo' = find_and_replace_source(handled.fs[p].json, <<>>, "")
    /\ fs_start' = fs
    /\ file_counter' = 0
    /\ UNCHANGED <<input, origin, pending, writes, reads, edits>>

\* the inline value without the media type of the placeholder
inline_url_NoMediaType(media_type, file_content) ==
    "data:;base64," \o STANDARD_encode(file_content)

\* format!("data:{};base64,{}", media_type, encoded)
inline_url(media_type, file_content) ==
    "data:" \o media_type \o ";base64," \o STANDARD_encode(file_content)

\* the file of a placeholder looked up under the declared path of the visit
in_path_of_DeclaredPath(v, file_path) == join(output_dir, TrimStartMatches(v.path, "/"))

\* files_dir.join(file_path): the file of a placeholder; the path, the array
\* flag and the index of the visit are not used
in_path_of(v, file_path) == join(output_dir, file_path)

\* the closure of assemble_v3_config applied to the source of a visit
AssembleField ==
    /\ pc = "asm_walk"
    /\ Len(todo) > 0
    /\ LET v == Head(todo)
           source_str == GetAt(json_value, v.ptr).s
           after_data == TrimStartMatches(source_str, "data:")
           parts == SplitN2(after_data, ";base64-placeholder,")
           media_type == parts[1]
           in_path == in_path_of(v, parts[2])
           file_content == fs_read(fs, in_path)
       IN  IF ~Contains(source_str, ";base64-placeholder,")
           THEN /\ todo' = Tail(todo)
                /\ UNCHANGED <<pc, json_value, file_counter, reads, error>>
           ELSE IF Len(parts) < 2 \/ Len(parts[2]) = 0
           THEN /\ pc' = "asm_err"
                /\ error' = "Invalid placeholder format: missing file path"
                /\ UNCHANGED <<json_value, todo, file_counter, reads>>
           ELSE IF ~file_content.ok
           THEN /\ pc' = "asm_err"
                /\ error' = "io error"
                /\ UNCHANGED <<json_value, todo, file_counter, reads>>
           ELSE /\ json_value' = SetAt(json_value, v.ptr,
                       JStr(inline_url(media_type, file_content.bytes)))
                /\ file_counter' = file_counter + 1
                /\ reads' = Append(reads, Resolve(in_path))
                /\ todo' = Tail(todo)
                /\ UNCHANGED <<pc, error>>
    /\ UNCHANGED <<input, origin, pending, fs, writes, edits, decomposed, action, default,
                   fs_start>>

\* the walk is over: the default values are removed when asked for and the
\* document is written to the target file (the compact and the pretty text
\* hold the same document)
AssembleFinish ==
    /\ pc = "asm_walk"
    /\ Len(todo) = 0
    /\ LET modified_json == IF default THEN remove_default_values(json_value) ELSE json_value
           w == fs_write(fs, target_file, JsonFile(modified_json))
       IN  /\ fs' = w.fs
           /\ pc' = IF w.ok THEN "asm_done" ELSE "asm_err"
           /\ error' = IF w.ok THEN "" ELSE "Failed to write output file"
    /\ UNCHANGED <<input, origin, json_value, todo, file_counter, pending, writes, reads,
                   edits, decomposed, action, default,
                   fs_start>>

Next ==
    \/ DisassembleStart
    \/ ExtractWrite
    \/ ExtractRewrite
    \/ DisassembleFinish
    \/ EditFile
    \/ AssembleStart
    \/ AssembleField
    \/ AssembleFinish

Spec == Init /\ [][Next]_vars

(***************************************************************************)
(* Notions the properties are stated with.  They are defined on the        *)
(* document alone, apart from the walks above.                             *)
(***************************************************************************)

\* the pointers of all values of v
RECURSIVE Ptrs(_, _)
Ptrs(v, ptr) ==
    {ptr} \cup UNION {Ptrs(Children(v)[i], ptr \o <<i>>) : i \in 1..Len(Children(v))}

\* the key under which the value at a non-empty ptr is stored in its parent, "" in an array
KeyOf(doc, ptr) ==
    LET parent == GetAt(doc, SubSeq(ptr, 1, Len(ptr) - 1))
    IN  IF parent.t = "obj" THEN parent.kv[ptr[Len(ptr)]][1] ELSE ""

\* the content fields: the string values stored under the key "source"
SourcePtrs(doc) ==
    {p \in Ptrs(doc, <<>>) : Len(p) > 0 /\ KeyOf(doc, p) = "source" /\ GetAt(doc, p).t = "str"}

\* the proper ancestors of ptr that are objects declaring a path string
Declaring(doc, ptr) ==
    {k \in 0..(Len(ptr) - 1) :
        LET a == GetAt(doc, SubSeq(ptr, 1, k))
        IN  a.t = "obj" /\ get(a, "path").t = "str"}

\* the Logical Path of the value at ptr: the path string of the nearest
\* enclosing object that declares one, "" when there is none
LogicalPath(doc, ptr) ==
    LET ks == Declaring(doc, ptr)
    IN  IF ks = {} THEN ""
        ELSE get(GetAt(doc, SubSeq(ptr, 1, CHOOSE k \in ks : \A j \in ks : j <= k)), "path").s

\* a placeholder: data:<media-type>;base64-placeholder,<external-ref>
IsPlaceholder(s) == StartsWith(s, "data:") /\ Contains(s, ";base64-placeholder,")

\* an inline data URL that parses and decodes
IsInline(s) ==
    /\ StartsWith(s, "data:")
    /\ ~Contains(s, ";base64-placeholder,")
    /\ DataUrl_process(s).ok
    /\ DataUrl_process(s).decoded

AllInline(doc) == \A p \in SourcePtrs(doc) : IsInline(GetAt(doc, p).s)

AllPlaceholders(doc) ==
    /\ SourcePtrs(doc) # {}
    /\ \A p \in SourcePtrs(doc) : IsPlaceholder(GetAt(doc, p).s)

\* a path with a parent-directory segment
HasParentSegment(path) == \E i \in 1..Len(Split(path, "/")) : Split(path, "/")[i] = ".."

\* the source of the only file entry of the one-file test documents
OnlySource(doc) == GetAt(doc, <<2, 1, 1, 1, 1>>).s

(***************************************************************************)
(* Properties                                                              *)
(***************************************************************************)

\* C1: round-trip identity.  For a document whose content fields are all
\* inline data URLs, disassemble followed by assemble (neither refused
\* because its target exists, and without default suppression) yields a
\* document equal to the original.
C1_RoundTripIdentity ==
    (/\ origin = "disassembled"
     /\ AllInline(input)
     /\ edits = 0
     /\ ~Contains(error, "already exists")
     /\ ~default)
        => /\ pc \notin {"dis_err", "dis_panic", "asm_err"}
           /\ pc = "asm_done" => (json_value = input /\ fs[target_file] = JsonFile(input))

\* C2: idempotence of disassemble.  On a document whose content fields are
\* all placeholders, disassemble writes no content file, leaves every source
\* unchanged and counts 0 extracted files.
C2_DisassembleIdempotent ==
    (origin = "disassembled" /\ AllPlaceholders(input) /\ pc \in {"dis_walk", "dis_done"})
        => /\ writes = <<>>
           /\ json_value = input
           /\ file_counter = 0

\* C3: traversal rejection on extraction.  No inline field whose Logical Path
\* has a parent-directory segment is extracted, and nothing is created
\* outside the output directory.
C3_ExtractionStaysInside ==
    /\ \A i \in 1..Len(writes) :
          /\ ~HasParentSegment(writes[i].path)
          /\ Inside(writes[i].target, output_dir)
    /\ \A p \in DOMAIN fs :
          p \in DOMAIN BaseFs \/ p = output_dir \/ Inside(p, output_dir) \/ p = target_file

\* C4: traversal rejection on embedding.  Assemble reads no file outside the
\* ignition directory.
C4_EmbeddingStaysInside ==
    \A i \in 1..Len(reads) : Inside(reads[i], output_dir)

\* the position of the member key in an object that contains it
PosOf(map, key) == CHOOSE i \in 1..Len(map.kv) : map.kv[i][1] = key

\* the content-bearing arrays of path-declaring objects: <<o, i>> where the
\* object at o declares a path string and its member i, which is neither
\* "path" nor "source", is a non-empty array of objects that each carry an
\* inline source
ArrayOwners(doc) ==
    {oi \in UNION {{<<o, i>> : i \in 1..Len(Children(GetAt(doc, o)))} : o \in Ptrs(doc, <<>>)} :
        LET obj == GetAt(doc, oi[1])
        IN  /\ obj.t = "obj"
            /\ get(obj, "path").t = "str"
            /\ obj.kv[oi[2]][1] \notin {"path", "source"}
            /\ obj.kv[oi[2]][2].t = "arr"
            /\ Len(obj.kv[oi[2]][2].a) > 0
            /\ \A j \in 1..Len(obj.kv[oi[2]][2].a) :
                  LET item == obj.kv[oi[2]][2].a[j]
                  IN  /\ item.t = "obj"
                      /\ get(item, "source").t = "str"
                      /\ IsInline(get(item, "source").s)}

\* the array of an owner, its declared path and the pointers of its elements' sources
ArrayOf(doc, oi) == GetAt(doc, oi[1]).kv[oi[2]][2].a

PathOf(doc, oi) == get(GetAt(doc, oi[1]), "path").s

ElementSource(doc, oi, j) == oi[1] \o <<oi[2], j, PosOf(ArrayOf(doc, oi)[j], "source")>>

\* the directories named by two Logical Paths lie on one branch of the tree
OnOneBranch(q, P) ==
    LET a == Resolve(Components(q))
        b == Resolve(Components(P))
    IN  /\ Len(a) > 0
        /\ \/ (Len(a) <= Len(b) /\ SubSeq(b, 1, Len(a)) = a)
           \/ (Len(b) <= Len(a) /\ SubSeq(a, 1, Len(b)) = b)

\* ptr lies at or below the value at top
Below(ptr, top) == Len(ptr) >= Len(top) /\ SubSeq(ptr, 1, Len(top)) = top

\* the elements of the array are the only content fields of the document
\* whose Logical Path leads to the directory of the array, and they hold no
\* content field but their own source
Exclusive(doc, oi) ==
    /\ Len(Components(PathOf(doc, oi))) > 0
    /\ \A p \in SourcePtrs(doc) :
          (\/ OnOneBranch(LogicalPath(doc, p), PathOf(doc, oi))
           \/ Below(p, oi[1] \o <<oi[2]>>))
              => \E j \in 1..Len(ArrayOf(doc, oi)) : p = ElementSource(doc, oi, j)

\* the directory below the output directory that a Logical Path names
DirOf(P) == Resolve(output_dir \o Components(P))

NoDeclaration(k) == Declaring(input, writes[k].ptr) = {}

\* C7: empty-path synthesis.  A field with no ancestor path declaration is
\* extracted to extracted_file_<counter>.<extension of its media type>, the
\* counter being the number of fields converted before it, and two such
\* fields get distinct files, neither overwriting the other.
C7_EmptyPathSynthesis ==
    /\ \A k \in 1..Len(writes) :
          NoDeclaration(k)
              => /\ writes[k].ref = "extracted_file_" \o to_string(k - 1) \o "."
                        \o extension_of(DataUrl_process(writes[k].source).media_type)
                 /\ writes[k].target = output_dir \o <<writes[k].ref>>
    /\ \A k \in 1..Len(writes), l \in 1..Len(writes) :
          (NoDeclaration(k) /\ NoDeclaration(l) /\ k # l)
              => /\ writes[k].target # writes[l].target
                 /\ (/\ pc \in {"dis_walk", "dis_done"}
                     /\ edits = 0
                     /\ \A m \in 1..Len(writes) :
                           writes[m].target = writes[k].target => NoDeclaration(m))
                        => fs[writes[k].target] = FileEntry(writes[k].bytes)

\* the three fields of the document without a path declaration are extracted
C7_Witness ==
    /\ input = DocNoPath
    /\ pc = "dis_done"
    /\ Len(writes) = 3
    /\ \A k \in 1..3 : NoDeclaration(k)
    /\ writes[2].ref = "extracted_file_1.json"
    /\ writes[3].ref = "extracted_file_2.css"

\* C8 as stated: Scenario A writes etc/test with the bytes "test content",
\* leaves the placeholder data:;base64-placeholder,etc/test and assembles
\* back to data:;base64,dGVzdCBjb250ZW50.
C8_ScenarioA_AsStated ==
    (input = DocScenarioA /\ edits = 0)
        => /\ pc = "dis_done"
                => /\ fs[output_dir \o <<"etc", "test">>] = FileEntry(Bytes("test content"))
                   /\ OnlySource(fs[output_dir \o <<"decoded.ign">>].json)
                        = "data:;base64-placeholder,etc/test"
           /\ pc = "asm_done"
                => OnlySource(fs[target_file].json) = "data:;base64,dGVzdCBjb250ZW50"

\* C8 amended: Scenario A writes etc/test with the bytes "test content" and
\* leaves the placeholder
\* data:text/plain;charset=US-ASCII;base64-placeholder,etc/test; assembling
\* that form yields data:text/plain;charset=US-ASCII;base64,dGVzdCBjb250ZW50.
C8_ScenarioA ==
    (input = DocScenarioA /\ edits = 0)
        => /\ pc = "dis_done"
                => /\ fs[output_dir \o <<"etc", "test">>] = FileEntry(Bytes("test content"))
                   /\ OnlySource(fs[output_dir \o <<"decoded.ign">>].json)
                        = "data:text/plain;charset=US-ASCII;base64-placeholder,etc/test"
           /\ pc = "asm_done"
                => OnlySource(fs[target_file].json)
                     = "data:text/plain;charset=US-ASCII;base64,dGVzdCBjb250ZW50"

\* Scenario A disassembled and assembled again
C8_Witness ==
    /\ input = DocScenarioA
    /\ edits = 0
    /\ pc = "asm_done"
    /\ target_file \in DOMAIN fs

\* C9: placeholder media type on extraction.  A converted field holds
\* data:<M>;base64-placeholder,<location>, M being the media type the
\* data-URL parser reports for the inline value and location the place of
\* the written file below the output directory; for data:;base64,... under
\* /etc/test it is data:text/plain;charset=US-ASCII;base64-placeholder,etc/test.
C9_PlaceholderMediaType ==
    /\ \A k \in 1..Len(writes) :
          (pc \in {"dis_walk", "dis_done"} /\ (k < Len(writes) \/ pending = ""))
              => /\ GetAt(json_value, writes[k].ptr).s
                      = "data:" \o DataUrl_process(writes[k].source).media_type
                          \o ";base64-placeholder," \o writes[k].ref
                 /\ Resolve(join(output_dir, writes[k].ref)) = writes[k].target
    /\ (input = DocScenarioA /\ pc = "dis_done")
          => OnlySource(json_value)
               = "data:text/plain;charset=US-ASCII;base64-placeholder,etc/test"

\* the field of Scenario A, written without a media type, has been converted
C9_Witness ==
    /\ input = DocScenarioA
    /\ pc = "dis_walk"
    /\ pending = ""
    /\ Len(writes) = 1
    /\ writes[1].source = "data:;base64,dGVzdCBjb250ZW50"
    /\ file_counter = 1

Marker == ";base64-placeholder,"

\* C10: embedding result.  For every placeholder data:<M>;base64-placeholder,<R>
\* of the decomposed document whose file R exists below the ignition
\* directory with bytes B, a finished assemble has rewritten the field to
\* data:<M>;base64,<standard base64 of B>, B being the bytes the file holds
\* now, edits included.
C10_EmbeddingResult ==
    /\ \A p \in SourcePtrs(decomposed) :
          LET s == GetAt(decomposed, p).s
              k == IndexOf(s, Marker)
              M == SubSeq(s, 6, k - 1)
              R == SubSeq(s, k + Len(Marker), Len(s))
              loc == Resolve(output_dir \o Components(R))
          IN  (/\ pc = "asm_done"
               /\ IsPlaceholder(s)
               /\ ~StartsWith(R, "/")
               /\ Inside(loc, output_dir)
               /\ IsFile(fs, loc))
                  => GetAt(json_value, p).s
                       = "data:" \o M \o ";base64," \o STANDARD_encode(fs[loc].bytes)
    /\ (origin = "prepared" /\ decomposed = DocPlaceholder /\ pc = "asm_done")
          => OnlySource(fs[target_file].json)
               = IF edits = 0
                 THEN "data:text/plain;charset=US-ASCII;base64,dGVzdCBjb250ZW50"
                 ELSE "data:text/plain;charset=US-ASCII;base64,ZWRpdGVk"

\* the decomposed test document assembled after its content file was edited
C10_Witness ==
    /\ origin = "prepared"
    /\ decomposed = DocPlaceholder
    /\ edits = 1
    /\ pc = "asm_done"
    /\ fs[output_dir \o <<"etc", "test">>].bytes = Bytes("edited")

\* the document with the string of every content field blanked
RECURSIVE Skeleton(_)
Skeleton(v) ==
    IF v.t = "obj"
    THEN JObj([i \in 1..Len(v.kv) |->
                 <<v.kv[i][1],
                   IF v.kv[i][1] = "source" /\ v.kv[i][2].t = "str"
                   THEN JStr("")
                   ELSE Skeleton(v.kv[i][2])>>])
    ELSE IF v.t = "arr"
    THEN JArr([j \in 1..Len(v.a) |-> Skeleton(v.a[j])])
    ELSE v

\* C11: non-content data is preserved.  The walks of disassemble and of
\* assemble change nothing but string values stored under the key "source":
\* at every step of either walk, and in decoded.ign and in a target file
\* written without default suppression, every other key, value, array
\* length and element order is as in the document the walk started from.
C11_NonContentPreserved ==
    /\ (origin = "disassembled" /\ pc \in {"dis_walk", "dis_done"})
          => Skeleton(json_value) = Skeleton(input)
    /\ (origin = "disassembled" /\ pc = "dis_done")
          => Skeleton(fs[output_dir \o <<"decoded.ign">>].json) = Skeleton(input)
    /\ (pc \in {"asm_walk", "asm_done"})
          => Skeleton(json_value) = Skeleton(decomposed)
    /\ (pc = "asm_done" /\ ~default)
          => Skeleton(fs[target_file].json) = Skeleton(decomposed)

\* the three fields of the test document with an array have been rewritten
\* by disassemble and rewritten again by assemble
C11_Witness ==
    /\ input = DocArraySources
    /\ pc = "asm_done"
    /\ ~default
    /\ Len(writes) = 3
    /\ Len(reads) = 3
    /\ decomposed # input
    /\ json_value # decomposed

\* the external reference of a placeholder
RefOf(s) == SubSeq(s, IndexOf(s, Marker) + Len(Marker), Len(s))

\* the placeholders of doc whose reference names no file of the filesystem
\* (the reference taken relative to the ignition directory)
Missing(doc) ==
    {p \in SourcePtrs(doc) :
        LET s == GetAt(doc, p).s
        IN  /\ IsPlaceholder(s)
            /\ Len(RefOf(s)) > 0
            /\ ~IsFile(fs, Resolve(join(output_dir, RefOf(s))))}

\* C12: missing external content is fatal.  When the decomposed document
\* holds a placeholder whose referenced file does not exist, assemble never
\* finishes successfully, the walk does not get past that field, the
\* operation ends with an error there, and no document is written to the
\* target file.
C12_MissingContentFatal ==
    (decomposed # JNull /\ Missing(decomposed) # {})
        => /\ pc \in {"asm_walk", "asm_err"}
           /\ target_file \notin DOMAIN fs
           /\ \E i \in 1..Len(todo) : todo[i].ptr \in Missing(decomposed)
           /\ (pc = "asm_err" => (error = "io error" /\ Head(todo).ptr \in Missing(decomposed)))

\* assemble of the prepared directory whose second content file is absent:
\* the first field was embedded, then the operation failed
C12_Witness ==
    /\ origin = "prepared"
    /\ decomposed = DocRefMissing
    /\ Missing(decomposed) = {<<2, 1, 2, 1, 1>>}
    /\ pc = "asm_err"
    /\ file_counter = 1
    /\ Len(reads) = 1

\* the states of a disassemble that has handled its target directory
DisassembleStates == {"dis_walk", "dis_done", "dis_err", "dis_panic"}

\* the states of an assemble that has handled its target file
AssembleStates == {"asm_walk", "asm_done", "asm_err"}

\* C13: disassemble with action New on an existing target directory fails
\* with an error containing "Target directory already exists", and nothing
\* of the filesystem is removed or written.
C13_NewOnExistingDirectory ==
    (/\ origin = "disassembled"
     /\ pc \in DisassembleStates
     /\ action = "new"
     /\ output_dir \in DOMAIN fs_start)
        => /\ pc = "dis_err"
           /\ Contains(error, "Target directory already exists")
           /\ fs = fs_start
           /\ writes = <<>>

\* disassemble with New has failed on the directory that held existing_file
C13_Witness ==
    /\ origin = "disassembled"
    /\ pc = "dis_err"
    /\ action = "new"
    /\ IsDir(fs_start, output_dir)
    /\ fs[output_dir \o <<"existing_file">>] = FileEntry(Bytes("old content"))
    /\ fs[output_dir \o <<"old", "keep">>] = FileEntry(Bytes("keep"))

\* p is a file this disassemble wrote, or a directory on the way to one
WrittenByThisRun(p) ==
    \/ p = output_dir \o <<"decoded.ign">> /\ pc = "dis_done"
    \/ \E k \in 1..Len(writes) :
          IF fs[p].kind = "file" THEN writes[k].target = p ELSE Inside(writes[k].target, p)

\* C14: disassemble with action Replace on an existing target directory does
\* not fail on it, and from then on the directory holds only what this
\* operation wrote (the extracted content files, the directories leading to
\* them and, once finished, decoded.ign); every file that was in it before
\* is gone.
C14_ReplaceExistingDirectory ==
    (/\ origin = "disassembled"
     /\ pc \in DisassembleStates
     /\ action = "replace"
     /\ output_dir \in DOMAIN fs_start)
        => /\ ~Contains(error, "target directory")
           /\ ~Contains(error, "Target directory")
           /\ IsDir(fs, output_dir)
           /\ \A p \in DOMAIN fs : Inside(p, output_dir) => WrittenByThisRun(p)
           /\ \A p \in DOMAIN fs_start :
                 (Inside(p, output_dir) /\ fs_start[p].kind = "file")
                     => (p \notin DOMAIN fs \/ \E k \in 1..Len(writes) : writes[k].target = p)
           /\ pc = "dis_done" => IsFile(fs, output_dir \o <<"decoded.ign">>)

\* the test document disassembled with Replace into the directory that held
\* existing_file
C14_Witness ==
    /\ input = DocScenarioA
    /\ pc = "dis_done"
    /\ action = "replace"
    /\ edits = 0
    /\ (output_dir \o <<"existing_file">>) \in DOMAIN fs_start
    /\ (output_dir \o <<"existing_file">>) \notin DOMAIN fs
    /\ IsFile(fs, output_dir \o <<"etc", "test">>)

\* the document assemble writes: the result of the walk, without its default
\* values when --default is given
Assembled == IF default THEN remove_default_values(json_value) ELSE json_value

\* C15: assemble with action New on an existing target file fails with an
\* error containing "Target file already exists" and leaves the file as it
\* was; with Add or Replace the existing file does not make it fail, and
\* when it has finished the target file holds the newly assembled document
\* and nothing of the old content.
C15_TargetFileActions ==
    (pc \in AssembleStates /\ target_file \in DOMAIN fs_start)
        => /\ action = "new"
                => /\ pc = "asm_err"
                   /\ Contains(error, "Target file already exists")
                   /\ fs = fs_start
           /\ action \in {"add", "replace"}
                => /\ ~Contains(error, "arget file")
                   /\ pc = "asm_done"
                        => /\ fs[target_file] = JsonFile(Assembled)
                           /\ fs[target_file] # fs_start[target_file]

\* assemble of the prepared test directory with New has failed on the
\* existing target file
C15_Witness ==
    /\ origin = "prepared"
    /\ pc = "asm_err"
    /\ action = "new"
    /\ fs_start[target_file] = OldTarget
    /\ fs[target_file] = OldTarget
    /\ IsFile(fs, output_dir \o <<"decoded.ign">>)

\* the values default suppression is to remove
DefaultValues == {JNull, JStr(""), JArr(<<>>), JObj(<<>>), JBool(FALSE), JNum(0)}

\* no object member and no array element of doc, at any depth, is such a value
NoDefaultInside(doc) ==
    \A p \in Ptrs(doc, <<>>) : Len(p) > 0 => GetAt(doc, p) \notin DefaultValues

\* C16: default suppression.  The document an assemble with --default has
\* written holds, at every depth, no object member or array element whose
\* value is null, "", [], {}, false or 0.
C16_DefaultSuppression ==
    (pc = "asm_done" /\ default) => NoDefaultInside(fs[target_file].json)

\* C17: each external location is written at most once per disassemble: no
\* two distinct content fields of the document are assigned the same
\* External Content Location.
C17_WrittenOnce ==
    \A k \in 1..Len(writes), l \in 1..Len(writes) :
        writes[k].ptr # writes[l].ptr => writes[k].target # writes[l].target

InSourceArray(doc, ptr) ==
    /\ Len(ptr) >= 2
    /\ LET arr == GetAt(doc, SubSeq(ptr, 1, Len(ptr) - 2))
       IN  /\ arr.t = "arr"
           /\ \A j \in 1..Len(arr.a) :
                 arr.a[j].t = "obj" /\ get(arr.a[j], "source").t = "str"

\* the 0-based position of that element in its array
PositionOf(ptr) == ptr[Len(ptr) - 1] - 1

C20_NoHalfConverted ==
    (origin = "disassembled" /\ pc \in DisassembleStates /\ json_value # JNull /\ edits = 0)
        => \A p \in SourcePtrs(input) :
              GetAt(json_value, p) # GetAt(input, p)
                  => LET s == GetAt(json_value, p).s
                         loc == Resolve(join(output_dir, RefOf(s)))
                     IN  /\ IsPlaceholder(s)
                         /\ IsFile(fs, loc)
                         /\ \E k \in 1..Len(writes) :
                               /\ writes[k].ptr = p
                               /\ writes[k].target = loc
                               /\ writes[k].bytes
                                    = DataUrl_process(GetAt(input, p).s).decoded_content
                               /\ (\A l \in (k + 1)..Len(writes) : writes[l].target # loc)
                                     => fs[loc] = FileEntry(writes[k].bytes)

\* in the middle of the walk of the test document with an array: the first
\* field is converted and its file written, the second is still inline
C20_Witness ==
    /\ input = DocArraySources
    /\ pc = "dis_walk"
    /\ pending = ""
    /\ Len(writes) = 1
    /\ Len(todo) = 2
    /\ IsPlaceholder(GetAt(json_value, writes[1].ptr).s)
    /\ fs[writes[1].target] = FileEntry(writes[1].bytes)
    /\ GetAt(json_value, Head(todo).ptr) = GetAt(input, Head(todo).ptr)

\* the disassemble has stopped at a content field: the field is the first
\* of those still to visit
FailedAtField ==
    origin = "disassembled" /\ pc \in {"dis_err", "dis_panic"} /\ Len(todo) > 0

\* an inline value without the comma that separates header and body
NoComma(s) == StartsWith(s, "data:") /\ ~Contains(s, ",")

\* the document file of the output directory
decoded_ign == output_dir \o <<"decoded.ign">>

\* C21: fail-fast without rollback on extraction.  When decoding or writing
\* a content field fails, disassemble ends there: the failing field and all
\* later fields keep their input values and have no file written,
\* decoded.ign is not written, the files written for the earlier fields are
\* still on disk, and no step follows.  A document with an inline value that
\* lacks the comma never gets to a finished disassemble.
C21_FailFastNoRollback ==
    /\ [](FailedAtField
            => /\ pending = ""
               /\ Len(writes) = file_counter
               /\ \A i \in 1..Len(todo) :
                     /\ GetAt(json_value, todo[i].ptr) = GetAt(input, todo[i].ptr)
                     /\ \A k \in 1..Len(writes) : writes[k].ptr # todo[i].ptr
               /\ decoded_ign \in DOMAIN fs
                     => \/ fs[decoded_ign].json = JNull
                        \/ (decoded_ign \in DOMAIN fs_start
                              /\ fs[decoded_ign] = fs_start[decoded_ign])
               /\ \A k \in 1..Len(writes) :
                     /\ IsFile(fs, writes[k].target)
                     /\ (\A l \in (k + 1)..Len(writes) : writes[l].target # writes[k].target)
                           => fs[writes[k].target] = FileEntry(writes[k].bytes))
    /\ []((origin = "disassembled"
             /\ \E p \in SourcePtrs(input) : NoComma(GetAt(input, p).s))
            => pc \in {"start", "dis_walk", "dis_err", "dis_panic"})
    /\ [][~FailedAtField]_vars

\* the second field of the document has no comma: the disassemble has failed
\* there, after the first field was converted and its file written
C21_Witness ==
    /\ input = DocNoComma
    /\ pc = "dis_err"
    /\ error = "Failed to parse data URL"
    /\ Len(writes) = 1
    /\ Len(todo) = 1
    /\ NoComma(GetAt(json_value, Head(todo).ptr).s)
    /\ IsPlaceholder(GetAt(json_value, writes[1].ptr).s)
    /\ fs[output_dir \o <<"etc", "ok">>] = FileEntry(Bytes("ok"))
    /\ decoded_ign \notin DOMAIN fs

\* an inline value whose base64 payload does not decode
InvalidPayload(s) ==
    StartsWith(s, "data:") /\ DataUrl_process(s).ok /\ ~DataUrl_process(s).decoded

\* C22: malformed inline content yields an error result.  A document with a
\* source that starts with data: and has no comma or an invalid base64
\* payload makes disassemble end with an error, never with a panic, and the
\* field is neither rewritten nor written to a file.
C22_MalformedIsError ==
    origin = "disassembled"
        => \A p \in SourcePtrs(input) :
              (NoComma(GetAt(input, p).s) \/ InvalidPayload(GetAt(input, p).s))
                  => /\ pc \in {"start", "dis_walk", "dis_err"}
                     /\ json_value # JNull => GetAt(json_value, p) = GetAt(input, p)
                     /\ \A k \in 1..Len(writes) : writes[k].ptr # p

\* the members stored under the key "source", whatever their values
SourceMembers(doc) == {p \in Ptrs(doc, <<>>) : Len(p) > 0 /\ KeyOf(doc, p) = "source"}

\* the value at p is not inline content: not a string, or a string that does
\* not begin with the scheme prefix
NotInlineAt(doc, p) ==
    LET v == GetAt(doc, p)
    IN  v.t # "str" \/ Len(v.s) < 5 \/ SubSeq(v.s, 1, 5) # "data:"

\* C23: non-inline content is left untouched by disassemble.  A source that
\* is not a string or does not begin with data: keeps its value through the
\* whole disassemble and in decoded.ign and has no file written; the visit
\* of such a value changes neither the filesystem nor the counter nor the
\* document, and the walk goes on with the next field.
C23_NonInlineUntouched ==
    /\ []((origin = "disassembled" /\ pc \in DisassembleStates /\ json_value # JNull)
            => \A p \in SourceMembers(input) :
                  NotInlineAt(input, p)
                      => /\ GetAt(json_value, p) = GetAt(input, p)
                         /\ \A k \in 1..Len(writes) : writes[k].ptr # p
                         /\ (pc = "dis_done" /\ edits = 0 /\ fs[decoded_ign].json # JNull)
                               => GetAt(fs[decoded_ign].json, p) = GetAt(input, p))
    /\ [][(/\ pc = "dis_walk"
           /\ pending = ""
           /\ Len(todo) > 0
           /\ NotInlineAt(json_value, Head(todo).ptr))
            => /\ pc' = "dis_walk"
               /\ todo' = Tail(todo)
               /\ file_counter' = file_counter
               /\ fs' = fs
               /\ json_value' = json_value]_vars

\* the remote URL of the first file was passed over and the inline content
\* of the second file extracted
C23_Witness ==
    /\ input = DocRemote
    /\ pc = "dis_done"
    /\ edits = 0
    /\ GetAt(json_value, <<2, 1, 1, 1, 1>>) = JStr("https://example.com/motd")
    /\ Len(writes) = 1
    /\ writes[1].path = "/etc/local"
    /\ file_counter = 1
    /\ (output_dir \o <<"etc", "remote">>) \notin DOMAIN fs

\* the content fields of the decomposed document that hold a placeholder
PlaceholderFields == {p \in SourcePtrs(decomposed) : IsPlaceholder(GetAt(decomposed, p).s)}

\* C24: non-placeholder content is left untouched by assemble.  A source of
\* the decomposed document that is not of the form
\* data:<media-type>;base64-placeholder,<external-ref> has the same value in
\* every state of the assemble, and no file is read but for the sources of
\* that form.
C24_NonPlaceholderUntouched ==
    (pc \in AssembleStates /\ decomposed # JNull)
        => /\ \A p \in SourcePtrs(decomposed) \ PlaceholderFields :
                 GetAt(json_value, p) = GetAt(decomposed, p)
           /\ Len(reads) <= Cardinality(PlaceholderFields)

\* the value assemble is to give a source that holds the marker, from the
\* source string and the files alone: the text before the marker without
\* the scheme prefix, and the base64 text of the file named after the marker
PathFreeValue(s, f) ==
    LET cut == IndexOf(s, Marker)
        head == TrimStartMatches(SubSeq(s, 1, cut - 1), "data:")
        file == Resolve(join(output_dir, RefOf(s)))
    IN  "data:" \o head \o ";base64," \o STANDARD_encode(f[file].bytes)

\* C25: assembly is independent of path declarations.  In a finished
\* assemble every source is a function of its string in the decomposed
\* document and of the bytes of the file that string references, whatever
\* the "path" members hold: two decomposed documents with the same
\* placeholders and files get the same sources.  A read fails only when the
\* file the placeholder references is not there.
C25_PathIndependent ==
    /\ (pc = "asm_done" /\ decomposed # JNull)
          => \A p \in SourcePtrs(decomposed) :
                LET s == GetAt(decomposed, p).s
                IN  GetAt(json_value, p).s
                      = IF Contains(s, Marker) THEN PathFreeValue(s, fs) ELSE s
    /\ (pc = "asm_err" /\ error = "io error")
          => LET s == GetAt(decomposed, Head(todo).ptr).s
             IN  ~IsFile(fs, Resolve(join(output_dir, RefOf(s))))

\* the test document with its path changed to /var/moved is assembled: the
\* source is the one the unchanged document gets, read from etc/test
C25_Witness ==
    /\ origin = "prepared"
    /\ pc = "asm_done"
    /\ edits = 0
    /\ decomposed = SetAt(DocPlaceholder, <<2, 1, 1, 3>>, JStr("/var/moved"))
    /\ decomposed # DocPlaceholder
    /\ reads = << output_dir \o <<"etc", "test">> >>
    /\ OnlySource(json_value) = "data:text/plain;charset=US-ASCII;base64,dGVzdCBjb250ZW50"
    /\ (output_dir \o <<"var">>) \notin DOMAIN fs

\* the content fields this disassemble has rewritten to a placeholder
Rewritten ==
    {p \in SourcePtrs(input) :
        /\ \E k \in 1..Len(writes) : writes[k].ptr = p
        /\ ~(pending # "" /\ Head(todo).ptr = p)
        /\ IsPlaceholder(GetAt(json_value, p).s)}

\* C26: Extraction Counter.  Disassemble starts its walk with the counter at
\* 0; a step of the walk leaves the counter and the document as they are or
\* rewrites one field to a placeholder and adds exactly 1; so the counter
\* never decreases and is at every moment, and when the disassemble has
\* finished, the number of fields rewritten to placeholders.
C26_ExtractionCounter ==
    /\ [][pc = "start" => file_counter' = 0]_vars
    /\ [][pc = "dis_walk"
            => \/ file_counter' = file_counter /\ json_value' = json_value
               \/ /\ file_counter' = file_counter + 1
                  /\ Len(todo) > 0
                  /\ IsPlaceholder(GetAt(json_value', Head(todo).ptr).s)
                  /\ \A p \in SourcePtrs(input) \ {Head(todo).ptr} :
                        GetAt(json_value', p) = GetAt(json_value, p)]_vars
    /\ []((origin = "disassembled" /\ pc \in DisassembleStates /\ json_value # JNull)
            => file_counter = Cardinality(Rewritten))

\* the three fields of the test document with an array are rewritten and
\* the disassemble has finished with the counter at 3
C26_Witness ==
    /\ input = DocArraySources
    /\ pc = "dis_done"
    /\ file_counter = 3
    /\ Cardinality(Rewritten) = 3
    /\ Len(writes) = 3

\* C27: a failed assemble does not destroy the previous output.  When
\* assemble runs with action Add or Replace on an existing target file and
\* fails, the target file is still there with the content it had.
C27_FailedAssembleKeepsTarget ==
    (/\ pc = "asm_err"
     /\ action \in {"add", "replace"}
     /\ IsFile(fs_start, target_file))
        => /\ target_file \in DOMAIN fs
           /\ fs[target_file] = fs_start[target_file]

\* C28: assemble reads the decomposed document, not an extracted content
\* file.  A finished disassemble leaves its document in decoded.ign, and an
\* assemble of that directory that got past the handling of its target file
\* has parsed decoded.ign and nothing else, whatever other file with the
\* extension ign the disassemble wrote at the top of the directory.
C28_AssembleReadsDecodedIgn ==
    /\ (origin = "disassembled" /\ pc = "dis_done")
          => fs[decoded_ign] = JsonFile(json_value)
    /\ (/\ origin = "disassembled"
        /\ pc \in AssembleStates
        /\ ~Contains(error, "Target file already exists")
        /\ ~Contains(error, "Failed to remove existing target file"))
          => /\ ~Contains(error, "Failed to parse decoded Ignition file")
             /\ decomposed = fs[decoded_ign].json

====
